---- MODULE Spec2Model ----
(***************************************************************************)
(* Model of the Translator variants of translation-techniques-js:          *)
(*   "flat"   src/translation-data-attributes.js  (one key -> text map)    *)
(*   "multi"  src/unnamed/part_000                (language -> key -> text)*)
(*   "proxy"  src/unnamed/part_001                (Proxy get trap)         *)
(*   "intl"   src/unnamed/part_002                (locale -> message set,  *)
(*                                                 read through a formatter)*)
(* One Translator instance works on one document.  The document is the     *)
(* ordered list of its elements carrying data-translate (none nested in    *)
(* another); element i has the key key[i] and the content innerHTML[i].    *)
(* Texts of the Ukrainian examples are transliterated to ASCII.            *)
(***************************************************************************)
EXTENDS Naturals, Sequences, FiniteSets

VARIABLES
    variant,        \* which Translator class was constructed
    translateMap,   \* this.translateMap   (flat)
    translations,   \* this.translations   (multi, proxy)
    language,       \* this.language       (multi)
    locale,         \* this.locale         (intl)
    formatter,      \* this.formatter      (intl)
    active,         \* languages that were this.language during a translate() (multi)
    key,            \* element.dataset.translate of each marked element
    innerHTML,      \* element.innerHTML of each marked element
    console,        \* lines console.warn printed during the latest apply pass
    written,        \* elements whose innerHTML was assigned in the latest pass
    threw,          \* the latest apply pass ended by a thrown TypeError
    ret,            \* value returned by the latest method call
    lastOp          \* latest call on the instance, with its argument

vars == <<variant, translateMap, translations, language, locale, formatter, active,
          key, innerHTML, console, written, threw, ret, lastOp>>

(***************************************************************************)
(* Bounds of the model.                                                    *)
(***************************************************************************)
MaxElements == 3
MaxRuns == 2

(***************************************************************************)
(* JavaScript values and the operations the source applies to them.        *)
(***************************************************************************)
undefined == [t |-> "undefined"]
String(s) == [t |-> "string", s |-> s]
NativeFunction(n) == [t |-> "function", name |-> n]
Object(own) == [t |-> "object", own |-> own]
TypeError == [t |-> "TypeError"]

\* new Intl.MessageFormat(messages, locale): the formatter keeps what it was built
\* from; format({ id }) gives the message of that id, read as a property of the
\* message set (the source documents it so: "hello" gives "Hello" or "Pryvit"
\* depending on the locale).
MessageFormat(messages, l) == [t |-> "MessageFormat", messages |-> messages, locale |-> l]

EmptyObject == Object([k \in {} |-> undefined])

\* Properties every object inherits from Object.prototype (those the inputs use).
ObjectPrototype == {"constructor", "toString", "valueOf"}

Inherited(k) ==
    IF k \in ObjectPrototype
    THEN NativeFunction(IF k = "constructor" THEN "Object" ELSE k)
    ELSE undefined

\* o[k]: own property, else the prototype chain; a TypeError on undefined.
Get(o, k) ==
    CASE o.t = "undefined" -> TypeError
      [] o.t = "object"    -> IF k \in DOMAIN o.own THEN o.own[k] ELSE Inherited(k)
      [] o.t = "function"  -> IF k = "name" THEN String(o.name) ELSE Inherited(k)

\* o?.[k]
OptionalGet(o, k) == IF o.t = "undefined" THEN undefined ELSE Get(o, k)

ToBoolean(v) ==
    CASE v.t = "undefined" -> FALSE
      [] v.t = "string"    -> v.s # ""
      [] v.t = "function"  -> TRUE
      [] v.t = "object"    -> TRUE

ToString(v) ==
    CASE v.t = "undefined" -> "undefined"
      [] v.t = "string"    -> v.s
      [] v.t = "function"  -> "function " \o v.name \o "() { [native code] }"
      [] v.t = "object"    -> "[object Object]"

\* a || b
Or(a, b) == IF ToBoolean(a) THEN a ELSE b

\* formatter.format({ id: id })
format(f, id) == Get(f.messages, id)

(***************************************************************************)
(* Inputs: keys, language tags, texts, tables, documents.                  *)
(***************************************************************************)
TableKeys == {"hello", "goodbye"}
Keys == TableKeys \cup {"toString"}
TableLanguages == {"en", "uk"}
LanguageTags == TableLanguages \cup {"fr", "toString"}

Text(l, k) ==
    CASE l = "en" /\ k = "hello"   -> "Hello"
      [] l = "en" /\ k = "goodbye" -> "Goodbye"
      [] l = "uk" /\ k = "hello"   -> "Pryvit"
      [] l = "uk" /\ k = "goodbye" -> "Do pobachennia"

\* The key -> text maps of one language: each key absent, empty or its text.
Maps(l) ==
    { Object([k \in ks |-> String(IF k \in es THEN "" ELSE Text(l, k))]) :
        <<ks, es>> \in { p \in (SUBSET TableKeys) \X (SUBSET TableKeys) :
                            p[2] \subseteq p[1] } }

FlatTables == Maps("uk")

MultiTables ==
    { Object([l \in {"en"} |-> en]) : en \in Maps("en") }
    \cup { Object([l \in TableLanguages |-> IF l = "en" THEN en ELSE uk]) :
             <<en, uk>> \in Maps("en") \X Maps("uk") }

LocaleOf(l) == IF l = "en" THEN "en-US" ELSE "uk-UA"
Locales == {LocaleOf(l) : l \in TableLanguages}
LocaleTags == Locales \cup {"fr-FR", "toString"}

IntlTables ==
    { Object([l \in {"en-US"} |-> en]) : en \in Maps("en") }
    \cup { Object([l \in Locales |-> IF l = "en-US" THEN en ELSE uk]) :
             <<en, uk>> \in Maps("en") \X Maps("uk") }

Documents == UNION { [1..n -> Keys] : n \in 0..MaxElements }

OriginalHTML == "Original"

(***************************************************************************)
(* Construction.                                                           *)
(***************************************************************************)
InitDocument ==
    /\ key \in Documents
    /\ innerHTML = [i \in 1..Len(key) |-> OriginalHTML]
    /\ console = <<>>
    /\ written = {}
    /\ threw = FALSE
    /\ ret = undefined
    /\ lastOp = [op |-> "new"]
    /\ active = {}

\* new Translator(translateMap)
FlatConstructor ==
    /\ variant = "flat"
    /\ \E arg \in FlatTables \cup {undefined} : translateMap = Or(arg, EmptyObject)
    /\ translations = undefined
    /\ language = undefined
    /\ locale = undefined
    /\ formatter = undefined

\* new Translator(language, translations)
MultiConstructor ==
    /\ variant = "multi"
    /\ \E l \in {String(x) : x \in LanguageTags} \cup {undefined} :
          language = Or(l, String("en"))
    /\ \E arg \in MultiTables \cup {undefined} : translations = Or(arg, EmptyObject)
    /\ translateMap = undefined
    /\ locale = undefined
    /\ formatter = undefined

\* new Translator(translations), the Proxy
ProxyConstructor ==
    /\ variant = "proxy"
    /\ translations \in FlatTables \cup {undefined}
    /\ translateMap = undefined
    /\ language = undefined
    /\ locale = undefined
    /\ formatter = undefined

\* new Translator(locale, translations), the Intl-backed one
IntlConstructor ==
    /\ variant = "intl"
    /\ \E l \in {String(x) : x \in LocaleTags} \cup {undefined} :
          locale = Or(l, String("en-US"))
    /\ \E arg \in IntlTables \cup {undefined} : translations = Or(arg, EmptyObject)
    /\ formatter = MessageFormat(Or(Get(translations, ToString(locale)), EmptyObject), locale)
    /\ translateMap = undefined
    /\ language = undefined

Init ==
    /\ InitDocument
    /\ \/ FlatConstructor
       \/ MultiConstructor
       \/ ProxyConstructor
       \/ IntlConstructor

(***************************************************************************)
(* The apply pass: querySelectorAll('[data-translate]').forEach(callback). *)
(* A pass is the record of what it has done so far.                        *)
(***************************************************************************)
StartPass == [innerHTML |-> innerHTML, console |-> <<>>, written |-> {}, threw |-> FALSE]

\* Mutant: element.innerHTML += value
AppendInnerHTML(old, value) == old \o ToString(value)

\* element.innerHTML = value
SetInnerHTML(old, value) == ToString(value)

\* Mutant: the value is added after the element's content
AssignAppended(pass, i, value) ==
    [pass EXCEPT !.innerHTML[i] = @ \o ToString(value), !.written = @ \cup {i}]

\* pass with element i assigned value
Assign(pass, i, value) ==
    [pass EXCEPT !.innerHTML[i] = SetInnerHTML(@, value), !.written = @ \cup {i}]

\* Mutant: throw new Error(line) in place of console.warn(line)
WarnThrows(pass, line) == [pass EXCEPT !.console = Append(@, line), !.threw = TRUE]

\* pass with console.warn(line)
Warn(pass, line) == [pass EXCEPT !.console = Append(@, line)]

FlatMessage(k) == "Translation not found for key: " \o k

MultiMessage(k, l) ==
    "Translation not found for key: " \o k \o " in language: " \o ToString(l)

\* this.translateMap[key]
FlatLookup(k) == Get(translateMap, k)

\* Mutant: the table of the default language whatever this.language is
MultiLookupDefault(l, k) == OptionalGet(Get(translations, "en"), k)

\* this.translations[this.language]?.[key]
MultiLookup(l, k) == OptionalGet(Get(translations, ToString(l)), k)

\* the Proxy's get trap
ProxyGet(prop) ==
    LET found == Get(translations, prop)
    IN  IF found = TypeError
        THEN TypeError
        ELSE Or(found, String("Translation not found for key: " \o prop))

\* Mutant: a missing translation is passed over in silence
FlatCallbackSilent(pass, i) ==
    LET translation == FlatLookup(key[i])
    IN  IF ToBoolean(translation)
        THEN Assign(pass, i, translation)
        ELSE pass

FlatCallback(pass, i) ==
    LET translation == FlatLookup(key[i])
    IN  IF ToBoolean(translation)
        THEN Assign(pass, i, translation)
        ELSE Warn(pass, FlatMessage(key[i]))

\* Mutant: an element without translation is put back to its original content
MultiCallbackReverting(pass, i) ==
    LET translation == MultiLookup(language, key[i])
    IN  IF ToBoolean(translation)
        THEN Assign(pass, i, translation)
        ELSE Warn([pass EXCEPT !.innerHTML[i] = OriginalHTML],
                  MultiMessage(key[i], language))

MultiCallback(pass, i) ==
    LET translation == MultiLookup(language, key[i])
    IN  IF ToBoolean(translation)
        THEN Assign(pass, i, translation)
        ELSE Warn(pass, MultiMessage(key[i], language))

IntlMessage(k, l) ==
    "Translation not found for key: " \o k \o " in locale: " \o ToString(l)

IntlCallback(pass, i) ==
    LET translation == format(formatter, key[i])
    IN  IF ToBoolean(translation)
        THEN Assign(pass, i, translation)
        ELSE Warn(pass, IntlMessage(key[i], locale))

ProxyCallback(pass, i) ==
    LET value == ProxyGet(key[i])
    IN  IF value = TypeError
        THEN [pass EXCEPT !.threw = TRUE]
        ELSE Assign(pass, i, value)

Callback(pass, i) ==
    CASE variant = "flat"  -> FlatCallback(pass, i)
      [] variant = "multi" -> MultiCallback(pass, i)
      [] variant = "proxy" -> ProxyCallback(pass, i)
      [] variant = "intl"  -> IntlCallback(pass, i)

\* The elements in document order; an exception ends the pass.
RECURSIVE forEach(_, _)
forEach(pass, i) ==
    IF i > Len(key) \/ pass.threw
    THEN pass
    ELSE forEach(Callback(pass, i), i + 1)

Runs == IF lastOp.op = "translate" THEN lastOp.n ELSE 0

Finish(pass) ==
    /\ innerHTML' = pass.innerHTML
    /\ console' = pass.console
    /\ written' = pass.written
    /\ threw' = pass.threw
    /\ ret' = undefined
    /\ lastOp' = [op |-> "translate", n |-> Runs + 1]
    /\ active' = IF variant = "multi" THEN active \cup {ToString(language)} ELSE active
    /\ UNCHANGED <<variant, translateMap, translations, language, locale, formatter, key>>

(***************************************************************************)
(* The operations.                                                         *)
(***************************************************************************)
\* Translator.translate of the flat map
FlatTranslate ==
    /\ variant = "flat"
    /\ Runs < MaxRuns
    /\ Finish(forEach(StartPass, 1))

\* Translator.translate of the multi-language map
MultiTranslate ==
    /\ variant = "multi"
    /\ Runs < MaxRuns
    /\ Finish(forEach(StartPass, 1))

\* The loop over the marked elements that reads through the Proxy
ProxyApply ==
    /\ variant = "proxy"
    /\ Runs < MaxRuns
    /\ Finish(forEach(StartPass, 1))

\* Translator.translate of the Intl-backed Translator
IntlTranslate ==
    /\ variant = "intl"
    /\ Runs < MaxRuns
    /\ Finish(forEach(StartPass, 1))

\* Mutant: the locale is stored and the formatter left as it was
StoreLocaleOnly(l) ==
    /\ locale' = String(l)
    /\ UNCHANGED formatter

\* this.locale = locale; this.formatter = new Intl.MessageFormat(...)
StoreLocale(l) ==
    /\ locale' = String(l)
    /\ formatter' = MessageFormat(Or(Get(translations, ToString(locale')), EmptyObject), locale')

\* Translator.setLocale(locale)
setLocale ==
    /\ variant = "intl"
    /\ \E l \in LocaleTags :
          /\ StoreLocale(l)
          /\ lastOp' = [op |-> "setLocale", arg |-> l]
    /\ ret' = undefined
    /\ UNCHANGED <<variant, translateMap, translations, language, active, key,
                   innerHTML, console, written, threw>>

\* Mutant: storing the language also re-applies the translations
StoreLanguageAndApply(l) ==
    /\ language' = String(l)
    /\ innerHTML' = [i \in 1..Len(key) |->
                        IF ToBoolean(MultiLookup(String(l), key[i]))
                        THEN ToString(MultiLookup(String(l), key[i]))
                        ELSE innerHTML[i]]
    /\ UNCHANGED <<translateMap, translations, console, written, threw>>

\* this.language = language
StoreLanguage(l) ==
    /\ language' = String(l)
    /\ UNCHANGED <<translateMap, translations, innerHTML, console, written, threw>>

\* Translator.setLanguage(language)
setLanguage ==
    /\ variant = "multi"
    /\ \E l \in LanguageTags :
          /\ StoreLanguage(l)
          /\ lastOp' = [op |-> "setLanguage", arg |-> l]
    /\ ret' = undefined
    /\ UNCHANGED <<variant, key, locale, formatter, active>>

Next ==
    \/ FlatTranslate
    \/ MultiTranslate
    \/ ProxyApply
    \/ setLanguage
    \/ IntlTranslate
    \/ setLocale

Spec == Init /\ [][Next]_vars

(***************************************************************************)
(* Vocabulary of the properties.                                           *)
(***************************************************************************)
Elements == 1..Len(key)
Static == variant \in {"flat", "multi"}
Translated == lastOp.op = "translate"
NoEntries == [k \in {} |-> undefined]

\* The own entries of the table the active language selects.
ActiveTable ==
    CASE variant = "flat"  -> translateMap.own
      [] variant = "multi" ->
            IF ToString(language) \in DOMAIN translations.own
            THEN translations.own[ToString(language)].own
            ELSE NoEntries
      [] variant = "proxy" ->
            IF translations.t = "object" THEN translations.own ELSE NoEntries

Present(i) == key[i] \in DOMAIN ActiveTable
HasText(i) == Present(i) /\ ActiveTable[key[i]].s # ""
TextOf(i) == ActiveTable[key[i]].s
Placeholder(k) == "Translation not found for key: " \o k

\* The diagnostic the spec gives for element i.
Diagnostic(i) ==
    IF variant = "multi"
    THEN "Translation not found for key: " \o key[i] \o " in language: " \o language.s
    ELSE "Translation not found for key: " \o key[i]

Occurrences(seq, x) == Cardinality({n \in 1..Len(seq) : seq[n] = x})

(***************************************************************************)
(* C1.  Multi-language Translator: after translate() every marked element  *)
(* whose key has a non-empty text V in translations[language] has exactly  *)
(* V as its content, whatever its content was before.                      *)
(***************************************************************************)
C1_TextReplacesContent ==
    (variant = "multi" /\ Translated) =>
        \A i \in Elements : HasText(i) => innerHTML[i] = TextOf(i)

\* "Hello" stands where the earlier pass in "uk" had put "Pryvit": the other
\* element still shows the "uk" text, which "en" lacks.
C1_Witness ==
    /\ variant = "multi" /\ Translated /\ language = String("en")
    /\ "uk" \in DOMAIN translations.own
    /\ Get(translations.own["uk"], "hello") = String("Pryvit")
    /\ \E i, j \in Elements :
          /\ key[i] = "hello" /\ HasText(i) /\ innerHTML[i] = "Hello"
          /\ key[j] = "goodbye" /\ innerHTML[j] = "Do pobachennia"

(***************************************************************************)
(* C2.  Proxy Translator: for every key absent from the table the loop     *)
(* writes the placeholder "Translation not found for key: K", and it       *)
(* writes to every target (the table's text where the key has one).        *)
(***************************************************************************)
C2_PlaceholderForAbsentKey ==
    (variant = "proxy" /\ Translated /\ translations.t = "object") =>
        \A i \in Elements :
            /\ i \in written
            /\ ~Present(i) => innerHTML[i] = Placeholder(key[i])
            /\ HasText(i) => innerHTML[i] = TextOf(i)

(***************************************************************************)
(* C3.  Static-map Translators: translate() never writes to an element     *)
(* whose key is absent from the table of the active language.              *)
(***************************************************************************)
C3_AbsentKeyNotWritten ==
    (Static /\ Translated) =>
        \A i \in Elements : ~Present(i) => i \notin written

(***************************************************************************)
(* C4.  Static-map Translators: translate() leaves the content of an       *)
(* element whose key has no translation as it was and warns once for it,   *)
(* naming the key (and the active language in the multi-language variant). *)
(***************************************************************************)
C4_MissingKeyWarnsAndKeeps ==
    [][(Static /\ lastOp'.op = "translate") =>
          \A i \in Elements :
              ~HasText(i) =>
                  /\ innerHTML'[i] = innerHTML[i]
                  /\ Occurrences(console', Diagnostic(i))
                        = Cardinality({j \in Elements : key[j] = key[i]})]_vars

(***************************************************************************)
(* C5.  Static-map Translators: a translate() call never throws, and every *)
(* element whose key has a non-empty text in the active table shows that   *)
(* text after it, whatever missing keys precede or follow it.              *)
(***************************************************************************)
C5_MissingNeverAborts ==
    (Static /\ Translated) =>
        /\ ~threw
        /\ \A i \in Elements : HasText(i) => innerHTML[i] = TextOf(i)

\* C5 as the spec words it: every element whose key is present in the table.
C5_Original ==
    (Static /\ Translated) =>
        /\ ~threw
        /\ \A i \in Elements : Present(i) => innerHTML[i] = TextOf(i)

C5_Witness ==
    /\ Static /\ Translated /\ ~threw /\ Len(key) = 3
    /\ ~HasText(1) /\ 1 \notin written
    /\ HasText(2) /\ innerHTML[2] = TextOf(2)
    /\ ~HasText(3) /\ 3 \notin written
    /\ Len(console) = 2

(***************************************************************************)
(* C6.  A Translator built without a table, or whose active language has   *)
(* no entry in the table, never throws on lookup: for a key such as        *)
(* "hello" the static variants find nothing to write and the Proxy yields  *)
(* the placeholder.                                                        *)
(***************************************************************************)
Degraded ==
    CASE variant = "flat"  -> translateMap = EmptyObject
      [] variant = "multi" -> ToString(language) \notin DOMAIN translations.own
      [] variant = "proxy" -> translations = undefined
      [] variant = "intl"  -> FALSE

C6_MissingTableDegrades ==
    (Translated /\ Degraded) =>
        /\ ~threw
        /\ \A i \in Elements :
              key[i] \in TableKeys =>
                  IF Static
                  THEN i \notin written
                  ELSE innerHTML[i] = Placeholder(key[i])

C8_NewLanguageOnly ==
    [][(variant = "multi" /\ lastOp'.op = "translate") =>
          \A i \in Elements :
              /\ HasText(i) => innerHTML'[i] = TextOf(i)
              /\ innerHTML'[i] \in
                    {innerHTML[i], ToString(OptionalGet(Get(translations, language.s), key[i]))}]_vars

\* C8 as the spec words it: every element whose key is present in translations[L2].
C8_Original ==
    (variant = "multi" /\ Translated) =>
        \A i \in Elements : Present(i) => innerHTML[i] = TextOf(i)

\* translate() in "en" after setLanguage("en"), after a pass in "uk".
C8_Witness ==
    /\ variant = "multi" /\ Translated /\ lastOp.n = 1 /\ language = String("en")
    /\ \E i, j \in Elements :
          /\ key[i] = "hello" /\ innerHTML[i] = "Hello"
          /\ key[j] = "goodbye" /\ ~Present(j) /\ innerHTML[j] = "Do pobachennia"

(***************************************************************************)
(* C9.  setLanguage(tag) stores the tag, whether or not the table has an   *)
(* entry for it, and changes neither the table nor any element's content.  *)
(***************************************************************************)
C9_SetLanguageOnlyStores ==
    [][lastOp'.op = "setLanguage" =>
          /\ language' = String(lastOp'.arg)
          /\ translations' = translations
          /\ innerHTML' = innerHTML
          /\ threw' = threw]_vars

\* The tag "fr" has no entry; the elements still show the "uk" text.
C9_Witness ==
    /\ lastOp.op = "setLanguage" /\ lastOp.arg = "fr" /\ language = String("fr")
    /\ "fr" \notin DOMAIN translations.own
    /\ \E i \in Elements : innerHTML[i] = "Pryvit"

(***************************************************************************)
(* C10.  Static-map Translators: translate() run again with the table and  *)
(* the language unchanged leaves every element's content as the first run  *)
(* left it and reports the same elements as written and the same warnings. *)
(***************************************************************************)
C10_TranslateIdempotent ==
    [][(Static /\ lastOp.op = "translate" /\ lastOp'.op = "translate") =>
          /\ innerHTML' = innerHTML
          /\ written' = written
          /\ console' = console]_vars

C10_Witness ==
    /\ Static /\ Translated /\ lastOp.n = 2
    /\ written # {} /\ console # <<>>

(***************************************************************************)
(* C11.  Intl-backed Translator: at every moment the formatter is the one  *)
(* built for the current locale from translations[locale], or from an      *)
(* empty message set when the table has no entry for the locale; so a      *)
(* translate() writes to an element exactly what the current locale gives  *)
(* for its key, and leaves alone the elements for which it gives nothing.  *)
(***************************************************************************)
LocaleMessages == Or(Get(translations, locale.s), EmptyObject)

C11_FormatterFollowsLocale ==
    variant = "intl" =>
        /\ \/ formatter = MessageFormat(Get(translations, locale.s), locale)
           \/ /\ locale.s \notin DOMAIN translations.own
              /\ formatter = MessageFormat(EmptyObject, locale)
        /\ Translated =>
              \A i \in Elements :
                  IF ToBoolean(Get(LocaleMessages, key[i]))
                  THEN i \in written /\ innerHTML[i] = ToString(Get(LocaleMessages, key[i]))
                  ELSE i \notin written

\* translate() in "en-US" after setLocale("en-US"), after a pass in "uk-UA":
\* "hello" now shows the "en-US" text, "goodbye", which "en-US" lacks, the "uk-UA" one.
C11_Witness ==
    /\ variant = "intl" /\ Translated /\ locale = String("en-US")
    /\ {"en-US", "uk-UA"} \subseteq DOMAIN translations.own
    /\ formatter = MessageFormat(translations.own["en-US"], locale)
    /\ \E i, j \in Elements :
          /\ key[i] = "hello" /\ i \in written /\ innerHTML[i] = "Hello"
          /\ key[j] = "goodbye" /\ j \notin written /\ innerHTML[j] = "Do pobachennia"

(***************************************************************************)
(* C12.  Multi-language Translator: after any setLanguage and translate    *)
(* calls each element shows its original content or what                   *)
(* translations[L][key] gave for its own key under a language L that was   *)
(* active during an earlier translate(); and a translate() under a         *)
(* language that has no text for the key leaves a text written earlier in  *)
(* place instead of putting the original content back.                     *)
(***************************************************************************)
Resolved(l, k) == OptionalGet(Get(translations, l), k)

C12_OriginalOrEarlierLanguage ==
    /\ [](variant = "multi" =>
             \A i \in Elements :
                 \/ innerHTML[i] = OriginalHTML
                 \/ \E l \in active :
                       /\ ToBoolean(Resolved(l, key[i]))
                       /\ innerHTML[i] = ToString(Resolved(l, key[i])))
    /\ [][(variant = "multi" /\ lastOp'.op = "translate") =>
             \A i \in Elements :
                 (~HasText(i) /\ innerHTML[i] # OriginalHTML) =>
                     innerHTML'[i] = innerHTML[i]]_vars

\* After a pass in "uk", a pass in "fr", which the table does not have.
C12_Witness ==
    /\ variant = "multi" /\ Translated /\ language = String("fr")
    /\ {"uk", "fr"} \subseteq active
    /\ \E i \in Elements :
          /\ key[i] = "hello" /\ ~HasText(i) /\ i \notin written
          /\ innerHTML[i] = "Pryvit"

====
